---- MODULE Spec2Model ----
(***************************************************************************)
(* A model of StorageBucket (src/app/src/app/storage/StorageBucket.js):    *)
(* the in-memory map __data__, the debounced flush of _writeToDisk, the    *)
(* write-file-atomic call it makes, and the bucket file on disk.           *)
(*                                                                         *)
(* Time is counted in ticks.  A timer armed by setTimeout(f, DELAY) runs   *)
(* its callback at the instant it expires: Tick is disabled while a timer  *)
(* is due.  A physical write may take any number of ticks.                 *)
(*                                                                         *)
(* Spec is the bucket called directly, with failed writes and crashes;     *)
(* SpecLive is Spec without them, under fairness; SpecGateway is the       *)
(* bucket driven through its IPC handlers and measurePerformance; SpecBoot *)
(* starts from the construction on any host, migration included.           *)
(***************************************************************************)
EXTENDS Integers, Sequences, FiniteSets, TLC

\* ------------------------------------------------------------------ bounds

\* Ticks the debounce delay is divided into.
DelayTicks == 2
\* Busy timer expiries counted after one mutation before the count saturates.
MaxRequeues == 2
\* Tokens one write call puts into the temporary file.
ChunkLen == 5
\* Calls of set and remove that run to their end in one behaviour.
MaxMutations == 3
\* Gateway requests and calls of measurePerformance in one behaviour.
MaxRequests == 2

\* DB_WRITE_DELAY_MS of shared/constants, in ticks.
DB_WRITE_DELAY_MS == DelayTicks

\* The clock of "time since the last mutation" saturates here while the
\* mutation awaits its write,
TimeCap == 2 * DB_WRITE_DELAY_MS + 1
\* and here once the write has begun.
QuietCap == DB_WRITE_DELAY_MS + 1

\* ------------------------------------------------------------- JS values

\* A JavaScript scalar: its type and its string form ('' + v).
JS(t, s) == [t |-> t, s |-> s]
Str(s) == JS("str", s)
Num(s) == JS("num", s)
Undefined == JS("undef", "undefined")
Null == JS("null", "null")
\* Object.prototype.constructor, which every object literal inherits.
ObjectFn == JS("fn", "function Object() { [native code] }")
\* What a handler that raised TypeError gives its caller.
Threw == JS("throw", "TypeError")

\* '' + v  (line 255)
ToStringJS(v) == Str(v.s)

\* JavaScript truthiness, as `json || d` reads it.
Truthy(v) ==
  CASE v.t = "str" -> v.s # ""
    [] v.t = "num" -> v.s # "0"
    [] v.t \in {"undef", "null"} -> FALSE
    [] OTHER -> TRUE

\* The keys callers use; "constructor" is also a property of Object.prototype.
Keys == {"a", "constructor"}
\* The values callers pass to _setItem.
Values == {Str(""), Num("1")}
\* The defaults callers pass to getItem.
Defaults == {Undefined, Str("d")}

\* ---------------------------------------------------------------- objects

\* __data__ is what JSON.parse returned: an object (its own properties in
\* insertion order) or a scalar.
Obj(props) == [t |-> "obj", s |-> "", props |-> props]
Scalar(v) == [t |-> v.t, s |-> v.s, props |-> <<>>]
IsObj(o) == o.t = "obj"

OwnIndex(props, k) ==
  IF \E i \in 1..Len(props) : props[i].k = k
  THEN CHOOSE i \in 1..Len(props) : props[i].k = k
  ELSE 0

HasOwn(o, k) == IsObj(o) /\ OwnIndex(o.props, k) # 0

\* Object.keys(o): own keys, in insertion order; none for a number or string.
ObjectKeys(o) == [i \in 1..Len(o.props) |-> o.props[i].k]

\* What Object.prototype gives for k when o has no own property k.
ProtoGet(k) == IF k = "constructor" THEN ObjectFn ELSE Undefined

\* o[k] for an object o.
Get(o, k) ==
  IF HasOwn(o, k) THEN o.props[OwnIndex(o.props, k)].v ELSE ProtoGet(k)

\* o[k] = v for an object o: an own key keeps its place, a new one is appended.
Put(o, k, v) ==
  IF HasOwn(o, k)
  THEN Obj([o.props EXCEPT ![OwnIndex(o.props, k)] = [k |-> k, v |-> v]])
  ELSE Obj(Append(o.props, [k |-> k, v |-> v]))

\* delete o[k] for an object o.
Delete(o, k) == Obj(SelectSeq(o.props, LAMBDA e : e.k # k))

\* ------------------------------------------------------------------- JSON

\* A document is a sequence of tokens; a string or number token is the
\* scalar it denotes.
LBRACE == JS("{", "")
RBRACE == JS("}", "")
COLON == JS(":", "")
COMMA == JS(",", "")
JUNK == JS("junk", "#")

IsScalarTok(x) == x.t \in {"str", "num", "null"}

RECURSIVE Members(_)
Members(props) ==
  IF props = <<>> THEN <<>>
  ELSE <<Str(props[1].k), COLON, props[1].v>>
       \o (IF Len(props) > 1 THEN <<COMMA>> ELSE <<>>)
       \o Members(Tail(props))

\* JSON.stringify(o) for an object of scalars, or a scalar.
JSONstringify(o) ==
  IF IsObj(o) THEN <<LBRACE>> \o Members(o.props) \o <<RBRACE>>
  ELSE <<JS(o.t, o.s)>>

\* The member list between the braces is well formed: key : scalar, comma
\* separated.
MembersOk(inner) ==
  /\ Len(inner) % 4 = 3
  /\ \A i \in 1..Len(inner) :
       CASE i % 4 = 1 -> inner[i].t = "str"
         [] i % 4 = 2 -> inner[i] = COLON
         [] i % 4 = 3 -> IsScalarTok(inner[i])
         [] OTHER -> inner[i] = COMMA

RECURSIVE ParseMembers(_, _)
ParseMembers(inner, o) ==
  IF Len(inner) < 3 THEN o
  ELSE ParseMembers(SubSeq(inner, 5, Len(inner)), Put(o, inner[1].s, inner[3]))

\* Whether JSON.parse(toks) returns (it raises SyntaxError otherwise).  Flat
\* documents only: an object of scalars, or a scalar.
JSONvalid(toks) ==
  \/ Len(toks) = 1 /\ IsScalarTok(toks[1])
  \/ /\ Len(toks) >= 2
     /\ toks[1] = LBRACE
     /\ toks[Len(toks)] = RBRACE
     /\ (Len(toks) = 2 \/ MembersOk(SubSeq(toks, 2, Len(toks) - 1)))

\* JSON.parse(toks) for a valid document; a repeated key keeps its last value.
JSONparse(toks) ==
  IF Len(toks) = 1 THEN Scalar(toks[1])
  ELSE ParseMembers(SubSeq(toks, 2, Len(toks) - 1), Obj(<<>>))

\* ------------------------------------------------------------------- disk

Absent == [exists |-> FALSE, toks |-> <<>>]
File(toks) == [exists |-> TRUE, toks |-> toks]

\* The contents the bucket file may have when the bucket is constructed.
InitFiles ==
  { Absent,
    File(<<LBRACE, Str("a"), COLON>>),
    File(<<LBRACE, Str("a"), COLON, Str("1"), RBRACE>>),
    File(<<LBRACE, Str("a"), COLON, Num("1"), RBRACE>>),
    File(<<Null>>) }

\* _loadFromDiskSync: the value __data__ gets from the file f.
_loadFromDiskSync(f) ==
  LET data == IF f.exists THEN f.toks ELSE <<LBRACE, RBRACE>>
  IN IF JSONvalid(data) THEN JSONparse(data) ELSE Obj(<<>>)

\* ------------------------------------------------------------------ state

VARIABLES
  file,           \* the bucket file at __path__: [exists, toks]
  __data__,       \* the in-memory map
  __writeHold__,  \* the handle of the timer armed last, or NoHandle
  __writeLock__,  \* a physical write is in flight
  timers,         \* the event loop's pending timeouts: [id, due]
  inflight,       \* the writeFileAtomic calls not yet called back
  alive,          \* the process has not crashed
  op,             \* the handler or callback of the bucket that ran last
  scratch,        \* the file at __path__ + '.measure'
  legacy,         \* the file at oldPath, the 3.1.3 location of the bucket file
  platform,       \* process.platform
  \* history variables: they record, and steer nothing
  flushed,        \* the snapshot the last rename put in the file, or NoSnap
  sinceMut,       \* ticks since the last mutation (saturating)
  nMut,           \* the set/remove calls that have run to their end
  dirty,          \* a mutation came after the last start of a write
  requeues,       \* busy timer expiries since the last mutation (saturating)
  burst,          \* the burst of mutations under way
  nReq,           \* the gateway requests and measurePerformance calls served
  boot            \* what construction found: platform, files, outcome of the move

vars ==
  <<file, __data__, __writeHold__, __writeLock__, timers, inflight, alive,
    op, scratch, legacy, platform, flushed, sinceMut, nMut, dirty, requeues,
    burst, nReq, boot>>

bucket == <<__data__, __writeHold__, __writeLock__, timers>>
disk == <<file, inflight>>
history == <<flushed, sinceMut, nMut, dirty, requeues, burst>>
host == <<legacy, platform, boot>>
aside == <<scratch, nReq, host>>

NoHandle == -1
NoSnap == [t |-> "none", s |-> "", props |-> <<>>]

\* The event object of a gateway request: its returnValue, once set, and the
\* messages evt.sender.send was handed.
NoEvt == [returnValue |-> <<>>, sent |-> <<>>]

Op(name, k, v, ret, events) ==
  [name |-> name, k |-> k, v |-> v, ret |-> ret, events |-> events,
   evt |-> NoEvt]
Step(name) == Op(name, "", Undefined, Undefined, <<>>)

NoBurst == [tracked |-> FALSE, n |-> 0, writes |-> 0, startedAt |-> 0]

Min(a, b) == IF a < b THEN a ELSE b

\* No timer pending and no write in flight.
Idle == timers = {} /\ ~__writeLock__

\* ------------------------------------------------------------ construction

\* The platforms the application runs on.
Platforms == {"win32", "linux"}

\* What fs.moveSync may do: move the file; raise with nothing moved; raise
\* with part of the file copied (a move across volumes copies, then removes).
MoveOutcomes == {"moved", "failed", "partial"}

\* The contents the file at oldPath may have when the bucket is constructed.
LegacyFiles == {Absent, File(<<LBRACE, Str("a"), COLON, Str(""), RBRACE>>)}

\* A _migrateFrom3v1v3 that moves the old file over a bucket file that exists.
_migrateFrom3v1v3_overwrites(pf, target, old, outcome) ==
  IF pf = "win32" /\ old.exists /\ outcome = "moved"
  THEN [target |-> old, legacy |-> Absent]
  ELSE [target |-> target, legacy |-> old]

\* _migrateFrom3v1v3 (bucketName): the files at __path__ and at oldPath as it
\* leaves them, given the platform, the files it finds and what fs.moveSync
\* does if called.  What it raises it catches.
_migrateFrom3v1v3(pf, target, old, outcome) ==
  IF pf # "win32" THEN [target |-> target, legacy |-> old]
  ELSE IF ~target.exists /\ old.exists
       THEN CASE outcome = "moved" -> [target |-> old, legacy |-> Absent]
              [] outcome = "partial" ->
                   [target |-> File(SubSeq(old.toks, 1, Len(old.toks) - 2)),
                    legacy |-> old]
              [] OTHER -> [target |-> target, legacy |-> old]
       ELSE [target |-> target, legacy |-> old]

\* fs.moveSync is called.
MoveAttempted(b) == b.platform = "win32" /\ ~b.target.exists /\ b.legacy.exists

\* What construction may find.
BootInputs ==
  {b \in [platform : Platforms, target : InitFiles, legacy : LegacyFiles,
          outcome : MoveOutcomes] :
     MoveAttempted(b) \/ b.outcome = "moved"}

\* A host with no file at oldPath.
BootCases == {b \in BootInputs : b.platform = "linux" /\ ~b.legacy.exists}

\* new StorageBucket(bucketName) on the host b.
constructor(b) ==
  /\ platform = b.platform
  /\ boot = b
  /\ LET m == _migrateFrom3v1v3(b.platform, b.target, b.legacy, b.outcome)
     IN /\ file = m.target
        /\ legacy = m.legacy
        /\ __data__ = _loadFromDiskSync(m.target)
  /\ __writeHold__ = NoHandle
  /\ __writeLock__ = FALSE
  /\ timers = {}
  /\ inflight = <<>>
  /\ alive = TRUE
  /\ op = Step("constructor")
  /\ scratch = Absent
  /\ flushed = NoSnap
  /\ sinceMut = 0
  /\ nMut = 0
  /\ dirty = FALSE
  /\ requeues = 0
  /\ burst = NoBurst
  /\ nReq = 0

\* The bucket constructed on a host with nothing to migrate.
Init == \E b \in BootCases : constructor(b)

\* The bucket constructed on any host.
InitBoot == \E b \in BootInputs : constructor(b)

\* ----------------------------------------------------------------- getters

\* getItem (k, d) of a bucket whose __data__ is o: a property read of null
\* raises TypeError.
getItemOf(o, k, d) ==
  IF o.t = "null" THEN Threw
  ELSE LET json == Get(o, k)
       IN IF Truthy(json) THEN json ELSE d

getItem(k, d) == getItemOf(__data__, k, d)

\* allKeys () of a bucket whose __data__ is o: Object.keys(null) raises
\* TypeError.
allKeysOf(o) == IF o.t = "null" THEN <<Threw>> ELSE ObjectKeys(o)

allKeys == allKeysOf(__data__)

\* ------------------------------------------------------------ _writeToDisk

\* A _writeToDisk that forgets clearTimeout: the timer armed before stays.
clearTimeout_forgotten(ts, h) == ts

\* clearTimeout(h): the timer of that handle, if still pending, is dropped.
clearTimeout(ts, h) == {t \in ts : t.id # h}

\* The handle setTimeout returns: one no pending timer has.
FreshId(ts, h) ==
  CHOOSE n \in 0..(Cardinality(ts) + 1) :
    /\ n # h
    /\ \A t \in ts : t.id # n
    /\ \A m \in 0..(Cardinality(ts) + 1) :
         (m # h /\ \A t \in ts : t.id # m) => n <= m

\* _writeToDisk (): the pending timers and the handle it leaves, given those
\* it finds.
_writeToDisk(ts, h) ==
  LET kept == clearTimeout(ts, h)
      id == FreshId(kept, h)
  IN [timers |-> kept \cup {[id |-> id, due |-> DB_WRITE_DELAY_MS]},
      hold |-> id]

\* ---------------------------------------------------------------- history

\* The burst a mutation belongs to: it carries on the tracked burst when it
\* comes less than the delay after the mutation before it, opens a tracked one
\* when the bucket is idle, and is not tracked otherwise.
BurstAfterMutation ==
  IF burst.tracked /\ sinceMut < DB_WRITE_DELAY_MS
  THEN [burst EXCEPT !.n = Min(burst.n + 1, 3)]
  ELSE IF Idle /\ inflight = <<>>
       THEN [tracked |-> TRUE, n |-> 1, writes |-> 0, startedAt |-> 0]
       ELSE NoBurst

BurstAfterWriteStart ==
  IF burst.tracked
  THEN [burst EXCEPT !.writes = Min(burst.writes + 1, 2),
                     !.startedAt = IF burst.writes = 0 THEN sinceMut ELSE @]
  ELSE burst

HistoryAfterMutation ==
  /\ sinceMut' = 0
  /\ nMut' = nMut + 1
  /\ dirty' = TRUE
  /\ requeues' = 0
  /\ burst' = BurstAfterMutation
  /\ UNCHANGED flushed

\* --------------------------------------------------------------- modifiers

\* this.emit(ch, e): what the listeners of channel ch are handed, with the map
\* as they find it when they run (emit runs them before it returns).
emit(ch, type, key, o) == [ch |-> ch, type |-> type, key |-> key, map |-> o]

\* The two emits of _setItem (lines 257-258), which come after the store and
\* after _writeToDisk: o is the map as the store left it.
_setItemEmits(k, o) ==
  <<emit("changed", "setItem", k, o), emit("changed:" \o k, "", "", o)>>

\* The two emits of _removeItem (lines 268-269).
_removeItemEmits(k, o) ==
  <<emit("changed", "removeItem", k, o), emit("changed:" \o k, "", "", o)>>

\* _setItem (k, v)
SetItem(k, v) ==
  /\ alive
  /\ UNCHANGED aside
  /\ IF IsObj(__data__)
     THEN /\ nMut < MaxMutations
          /\ __data__' = Put(__data__, k, ToStringJS(v))
          /\ LET w == _writeToDisk(timers, __writeHold__)
             IN timers' = w.timers /\ __writeHold__' = w.hold
          /\ op' = Op("setItem", k, v, v, _setItemEmits(k, __data__'))
          /\ HistoryAfterMutation
     ELSE /\ op' = Op("setItem", k, v, Threw, <<>>)
          /\ UNCHANGED <<bucket, history>>
  /\ UNCHANGED <<__writeLock__, disk, alive>>

\* _removeItem (k)
RemoveItem(k) ==
  /\ alive
  /\ UNCHANGED aside
  /\ IF IsObj(__data__)
     THEN /\ nMut < MaxMutations
          /\ __data__' = Delete(__data__, k)
          /\ LET w == _writeToDisk(timers, __writeHold__)
             IN timers' = w.timers /\ __writeHold__' = w.hold
          /\ op' = Op("removeItem", k, Undefined, Undefined,
                      _removeItemEmits(k, __data__'))
          /\ HistoryAfterMutation
     ELSE /\ op' = Op("removeItem", k, Undefined, Threw, <<>>)
          /\ UNCHANGED <<bucket, history>>
  /\ UNCHANGED <<__writeLock__, disk, alive>>

\* ------------------------------------------------------------------ clock

\* One tick passes.  A timer that is due runs first.
Tick ==
  /\ alive
  /\ UNCHANGED aside
  /\ \A t \in timers : t.due > 0
  /\ timers' = {[t EXCEPT !.due = @ - 1] : t \in timers}
  /\ sinceMut' = IF dirty THEN Min(sinceMut + 1, TimeCap)
                  ELSE Min(sinceMut + 1, QuietCap)
  /\ UNCHANGED <<__data__, __writeHold__, __writeLock__, disk, alive, op,
                 flushed, nMut, dirty, requeues, burst>>

\* ------------------------------------------------- the callback of the timer

\* A callback of the timer that starts its write whatever the lock says.
TimerCallbackBusy_ignoreLock == FALSE

\* if (this.__writeLock__): what the callback of the timer tests.
TimerCallbackBusy == __writeLock__

\* A flush that writes the bucket file in place (fs.writeFile).
DurableWriteTarget_inPlace == "file"

\* Where the bytes of a physical write go before the rename: writeFileAtomic
\* writes a temporary sibling of the target.
DurableWriteTarget == "tmp"

\* A busy callback that gives up instead of arming the timer again.
requeue_dropped(ts, h) == [timers |-> ts, hold |-> h]

\* A busy callback that tries again at once, without the delay.
requeue_immediate(ts, h) ==
  [timers |-> clearTimeout(ts, h) \cup {[id |-> FreshId(ts, h), due |-> 0]},
   hold |-> FreshId(ts, h)]

\* this._writeToDisk() in the callback of the timer: the flush is put off by
\* another delay.
requeue(ts, h) == _writeToDisk(ts, h)

\* A writeFileAtomic(path, doc, cb) call under way; snap records the map the
\* document was made from.
NewWrite(o) ==
  [doc |-> JSONstringify(o), tmp |-> <<>>, stage |-> "tmp", snap |-> o]

\* The timer t expires and its callback runs.
TimerFire(t) ==
  /\ alive
  /\ UNCHANGED aside
  /\ t \in timers
  /\ t.due = 0
  /\ IF TimerCallbackBusy
     THEN \* Requeue in DB_WRITE_DELAY_MS
          /\ LET w == requeue(timers \ {t}, __writeHold__)
             IN timers' = w.timers /\ __writeHold__' = w.hold
          /\ requeues' = IF dirty THEN Min(requeues + 1, MaxRequeues) ELSE requeues
          /\ op' = Step("requeue")
          /\ UNCHANGED <<__writeLock__, inflight, dirty, burst>>
     ELSE /\ timers' = timers \ {t}
          /\ __writeLock__' = TRUE
          /\ inflight' = Append(inflight, NewWrite(__data__))
          /\ dirty' = FALSE
          /\ burst' = BurstAfterWriteStart
          /\ op' = Step("flushStart")
          /\ UNCHANGED <<__writeHold__, requeues>>
  /\ UNCHANGED <<__data__, file, alive, flushed, sinceMut, nMut>>

\* ---------------------------------------------------------- writeFileAtomic

Without(seq, i) == SubSeq(seq, 1, i - 1) \o SubSeq(seq, i + 1, Len(seq))

\* The call writes the next chunk of its document.
WriteChunk(i) ==
  /\ alive
  /\ UNCHANGED aside
  /\ i \in 1..Len(inflight)
  /\ inflight[i].stage = "tmp"
  /\ Len(inflight[i].tmp) < Len(inflight[i].doc)
  /\ LET w == inflight[i]
         n == Min(Len(w.tmp) + ChunkLen, Len(w.doc))
     IN /\ inflight' = [inflight EXCEPT ![i].tmp = SubSeq(w.doc, 1, n)]
        /\ file' = IF DurableWriteTarget = "tmp" THEN file
                   ELSE File(SubSeq(w.doc, 1, n))
  /\ UNCHANGED <<bucket, alive, op, history>>

\* The call renames its complete temporary file over the bucket file.
WriteRename(i) ==
  /\ alive
  /\ UNCHANGED aside
  /\ i \in 1..Len(inflight)
  /\ inflight[i].stage = "tmp"
  /\ inflight[i].tmp = inflight[i].doc
  /\ file' = File(inflight[i].tmp)
  /\ inflight' = [inflight EXCEPT ![i].stage = "renamed"]
  /\ flushed' = inflight[i].snap
  /\ UNCHANGED <<bucket, alive, op, sinceMut, nMut, dirty, requeues, burst>>

\* A callback that never releases the lock.
writeCallback_neverUnlock(err) == TRUE

\* A callback that releases the lock only when the write went well.
writeCallback_keepLockOnError(err) == err

\* () => { this.__writeLock__ = false }: the lock the callback leaves, given
\* whether writeFileAtomic reports an error.
writeCallback(err) == FALSE

\* The call ends well and calls back.
WriteDone(i) ==
  /\ alive
  /\ UNCHANGED aside
  /\ i \in 1..Len(inflight)
  /\ inflight[i].stage = "renamed"
  /\ inflight' = Without(inflight, i)
  /\ __writeLock__' = writeCallback(FALSE)
  /\ op' = Step("writeDone")
  /\ UNCHANGED <<__data__, __writeHold__, timers, file, alive, history>>

\* The write of the temporary file or the rename fails: the call removes the
\* temporary file and calls back with the error.
WriteFail(i) ==
  /\ alive
  /\ UNCHANGED aside
  /\ i \in 1..Len(inflight)
  /\ inflight[i].stage = "tmp"
  /\ inflight' = Without(inflight, i)
  /\ __writeLock__' = writeCallback(TRUE)
  /\ op' = Step("writeFail")
  /\ UNCHANGED <<__data__, __writeHold__, timers, file, alive, history>>

\* The process dies: its memory and its timers are gone, the disk stays as it
\* is, temporary files included.
Crash ==
  /\ alive
  /\ UNCHANGED aside
  /\ alive' = FALSE
  /\ __data__' = NoSnap
  /\ __writeHold__' = NoHandle
  /\ __writeLock__' = FALSE
  /\ timers' = {}
  /\ op' = Step("crash")
  /\ sinceMut' = 0 /\ nMut' = 0 /\ dirty' = FALSE /\ requeues' = 0
  /\ burst' = NoBurst
  /\ UNCHANGED <<disk, flushed>>

\* ------------------------------------------------------------ stats, bench

\* allItems () of a bucket whose __data__ is o: every own key with what
\* getItem gives for it.
allItemsOf(o) ==
  Obj([i \in 1..Len(o.props) |->
         [k |-> o.props[i].k, v |-> getItemOf(o, o.props[i].k, Undefined)]])

\* item.length: the length of a string, undefined for a number.
LengthOf(item) ==
  IF item.t = "str" THEN Num(ToString(Len(item.s))) ELSE Undefined

\* getKeyLengths (): the own keys whose item is truthy, each with the length
\* of its item.
getKeyLengthsOf(o) ==
  LET measured == SelectSeq(ObjectKeys(o),
                            LAMBDA k : Truthy(getItemOf(o, k, Undefined)))
  IN Obj([i \in 1..Len(measured) |->
            [k |-> measured[i],
             v |-> LengthOf(getItemOf(o, measured[i], Undefined))]])

\* getStats () of a bucket whose __data__ is o and whose file is f; sizes are
\* counted in tokens.
getStatsOf(o, f) ==
  [filesize |-> Len(f.toks),
   keyLengths |-> getKeyLengthsOf(o),
   dataSize |-> Len(JSONstringify(o))]

\* measurePerformance (runs = 20)
DefaultRuns == 20
\* body.runs is left out of the request.
NoRuns == -1
\* The runs callers ask for.
RunsGiven == {NoRuns, 0, 2}

RunsOf(runs) == IF runs = NoRuns THEN DefaultRuns ELSE runs

\* The samples of one of the three loops: finish - start, runs times.  The
\* loops are synchronous: no tick passes while they run.
Samples(runs) == [i \in 1..RunsOf(runs) |-> 0]

\* JSON.stringify of a string that is itself a document: one string token.
JSONstringifyDoc(doc) == <<Str("doc")>>

\* The documents measurePerformance(runs) hands writeFileAtomic.sync, in
\* order: the flush loop writes JSON.stringify(data) of the serialised map,
\* the both loop the serialised map.
measureWrites(o, runs) ==
  [i \in 1..(2 * RunsOf(runs)) |->
     IF i <= RunsOf(runs) THEN JSONstringifyDoc(JSONstringify(o))
     ELSE JSONstringify(o)]

\* A measurePerformance that writes the bucket file.
testPath_live == "live"

\* const testPath = `${this.__path__}.measure`
testPath == "measure"

\* What measurePerformance(runs) returns.
measurePerformanceOf(runs) ==
  [serialize |-> Samples(runs), flush |-> Samples(runs), both |-> Samples(runs)]

\* The files as measurePerformance(runs) leaves them: writeFileAtomic.sync
\* returns with the document in place.
MeasureFiles(runs) ==
  LET ws == measureWrites(__data__, runs)
      left == IF ws = <<>> THEN <<>> ELSE <<File(ws[Len(ws)])>>
  IN /\ scratch' = IF testPath = "measure" /\ left # <<>> THEN left[1]
                    ELSE scratch
     /\ file' = IF testPath # "measure" /\ left # <<>> THEN left[1] ELSE file

\* measurePerformance (runs), called directly.
MeasurePerformance(runs) ==
  /\ alive
  /\ nReq < MaxRequests
  /\ nReq' = nReq + 1
  /\ UNCHANGED host
  /\ MeasureFiles(runs)
  /\ op' = [Step("measurePerformance") EXCEPT
              !.ret = measurePerformanceOf(runs)]
  /\ UNCHANGED <<bucket, inflight, alive, history>>

\* ---------------------------------------------------------------- gateway

IpcIds == {1, 2}

\* _sendIPCResponse (evt, response, sendSync = false)
_sendIPCResponse(evt, response, sendSync) ==
  IF sendSync
  THEN [evt EXCEPT !.returnValue = <<response>>]
  ELSE [evt EXCEPT !.sent = Append(@, [channel |-> "__ipcReplyChannel__",
                                       msg |-> response])]

\* A handler that ran to its end and replied.
Replied(name, body, response) ==
  [Step(name) EXCEPT
     !.evt = _sendIPCResponse(NoEvt, [id |-> body.id, response |-> response],
                              body.sync)]

\* A handler that raised before it reached _sendIPCResponse.
Raised(name) == [Step(name) EXCEPT !.ret = Threw]

_handleIPCSetItem(body) ==
  /\ alive
  /\ nReq < MaxRequests
  /\ nReq' = nReq + 1
  /\ UNCHANGED host
  /\ IF IsObj(__data__)
     THEN /\ nMut < MaxMutations
          /\ __data__' = Put(__data__, body.key, ToStringJS(body.value))
          /\ LET w == _writeToDisk(timers, __writeHold__)
             IN timers' = w.timers /\ __writeHold__' = w.hold
          /\ op' = [Replied("ipc:setItem", body, Null) EXCEPT
                      !.k = body.key, !.v = body.value, !.ret = body.value,
                      !.events = _setItemEmits(body.key, __data__')]
          /\ HistoryAfterMutation
     ELSE /\ op' = Raised("ipc:setItem")
          /\ UNCHANGED <<bucket, history>>
  /\ UNCHANGED <<__writeLock__, disk, alive, scratch>>

_handleIPCRemoveItem(body) ==
  /\ alive
  /\ nReq < MaxRequests
  /\ nReq' = nReq + 1
  /\ UNCHANGED host
  /\ IF IsObj(__data__)
     THEN /\ nMut < MaxMutations
          /\ __data__' = Delete(__data__, body.key)
          /\ LET w == _writeToDisk(timers, __writeHold__)
             IN timers' = w.timers /\ __writeHold__' = w.hold
          /\ op' = [Replied("ipc:removeItem", body, Null) EXCEPT
                      !.k = body.key,
                      !.events = _removeItemEmits(body.key, __data__')]
          /\ HistoryAfterMutation
     ELSE /\ op' = Raised("ipc:removeItem")
          /\ UNCHANGED <<bucket, history>>
  /\ UNCHANGED <<__writeLock__, disk, alive, scratch>>

\* A handler that reads: it replies with response unless the read raises.
Reads(name, body, raises, response) ==
  /\ alive
  /\ nReq < MaxRequests
  /\ nReq' = nReq + 1
  /\ UNCHANGED host
  /\ op' = IF raises THEN Raised(name) ELSE Replied(name, body, response)
  /\ UNCHANGED <<bucket, disk, alive, scratch, history>>

_handleIPCGetItem(body) ==
  Reads("ipc:getItem", body, __data__.t = "null",
        getItemOf(__data__, body.key, Undefined))

_handleIPCAllKeys(body) ==
  Reads("ipc:allKeys", body, __data__.t = "null", ObjectKeys(__data__))

_handleIPCAllItems(body) ==
  Reads("ipc:allItems", body, __data__.t = "null", allItemsOf(__data__))

\* fs.statSync raises when there is no file at __path__.
_handleIPCGetStats(body) ==
  Reads("ipc:getStats", body, ~file.exists \/ __data__.t = "null",
        getStatsOf(__data__, file))

_handleIPCMeasurePerformance(body) ==
  /\ alive
  /\ nReq < MaxRequests
  /\ nReq' = nReq + 1
  /\ UNCHANGED host
  /\ MeasureFiles(body.runs)
  /\ op' = Replied("ipc:measurePerformance", body,
                   measurePerformanceOf(body.runs))
  /\ UNCHANGED <<bucket, inflight, alive, history>>

\* A request body; a handler reads the fields of its own protocol only.
Body(id, sync, key, value, runs) ==
  [id |-> id, sync |-> sync, key |-> key, value |-> value, runs |-> runs]

\* The requests the other processes make: one caller asks with sendSync and
\* waits for the returnValue, the other sends and listens on the reply channel.
Callers == {[id |-> 1, sync |-> TRUE], [id |-> 2, sync |-> FALSE]}

GatewayRequest ==
  \E c \in Callers : LET id == c.id  sync == c.sync IN
    \/ \E k \in Keys, v \in Values :
         _handleIPCSetItem(Body(id, sync, k, v, NoRuns))
    \/ \E k \in Keys : _handleIPCRemoveItem(Body(id, sync, k, Undefined, NoRuns))
    \/ \E k \in Keys : _handleIPCGetItem(Body(id, sync, k, Undefined, NoRuns))
    \/ _handleIPCAllKeys(Body(id, sync, "", Undefined, NoRuns))
    \/ _handleIPCAllItems(Body(id, sync, "", Undefined, NoRuns))
    \/ _handleIPCGetStats(Body(id, sync, "", Undefined, NoRuns))
    \/ \E runs \in RunsGiven :
         _handleIPCMeasurePerformance(Body(id, sync, "", Undefined, runs))

\* ---------------------------------------------------------- specifications

Mutate ==
  \/ \E k \in Keys, v \in Values : SetItem(k, v)
  \/ \E k \in Keys : RemoveItem(k)

TimerFires == \E t \in timers : TimerFire(t)

\* A writeFileAtomic call under way takes its next step towards its end.
WriteProgress ==
  \/ \E i \in 1..Len(inflight) : WriteChunk(i)
  \/ \E i \in 1..Len(inflight) : WriteRename(i)
  \/ \E i \in 1..Len(inflight) : WriteDone(i)

Next ==
  \/ Mutate
  \/ Tick
  \/ TimerFires
  \/ WriteProgress
  \/ \E i \in 1..Len(inflight) : WriteFail(i)
  \/ Crash

Spec == Init /\ [][Next]_vars

\* No write fails and the process does not crash.
NextLive ==
  \/ Mutate
  \/ Tick
  \/ TimerFires
  \/ WriteProgress

\* The clock runs, a due timer runs its callback, a write under way ends.
SpecLive ==
  /\ Init
  /\ [][NextLive]_vars
  /\ WF_vars(Tick)
  /\ WF_vars(TimerFires)
  /\ WF_vars(WriteProgress)

\* The bucket as the other processes drive it: requests through the gateway
\* and calls of measurePerformance, with the clock, the timer and the writes.
NextGateway ==
  \/ GatewayRequest
  \/ \E runs \in RunsGiven : MeasurePerformance(runs)
  \/ Tick
  \/ TimerFires
  \/ WriteProgress

SpecGateway == Init /\ [][NextGateway]_vars

\* The bucket from its construction on any host, with no failure after it.
SpecBoot == InitBoot /\ [][NextLive]_vars

\* ================================================================== claims

SetOrRemove == IsObj(__data__) /\ Mutate
Last(seq) == seq[Len(seq)]

\* C1: at most one physical write of the bucket file is in flight in every
\* reachable state, and a timer that fires while __writeLock__ is true starts
\* no writeFileAtomic call.
C1_NoConcurrentFlush ==
  /\ [](Len(inflight) <= 1)
  /\ [][(TimerFires /\ __writeLock__) => inflight' = inflight]_vars

\* C1 witness: a timer has fired while a write was in flight and was requeued.
C1_Witness ==
  /\ op.name = "requeue"
  /\ requeues >= 1
  /\ __writeLock__
  /\ Len(inflight) = 1

\* C2: a burst of N >= 1 mutations, each less than the delay after the one
\* before, begun on an idle bucket, gives exactly one physical write, and that
\* write starts no earlier than DB_WRITE_DELAY_MS after the last of them.
C2_DebounceCoalescing ==
  burst.tracked =>
    /\ burst.writes <= 1
    /\ (sinceMut > DB_WRITE_DELAY_MS => burst.writes = 1)
    /\ (burst.writes = 1 => burst.startedAt >= DB_WRITE_DELAY_MS)

\* C2 witness: a burst of three mutations has had its one write.
C2_Witness ==
  /\ burst.tracked
  /\ burst.n = 3
  /\ burst.writes = 1
  /\ sinceMut > DB_WRITE_DELAY_MS

\* The bucket is idle and its file holds the encoding of the map.
Persisted ==
  /\ Idle
  /\ inflight = <<>>
  /\ file = File(JSONstringify(__data__))

\* C3: writes are never dropped.  After a finite sequence of set/remove calls
\* (at most MaxMutations of them), interleaved in any way with ticks, timer
\* callbacks and the steps of the writes, when timers fire and every write
\* ends well the bucket file comes to hold the encoding of the final map and
\* the bucket is idle, and both stay so.  (nMut > 0: a bucket no call has
\* mutated has no write to drop, and starts none.)
C3_WritesNeverDropped == <>[](nMut > 0 => Persisted)

\* C3 witness: a mutated bucket whose last write has called back, with the
\* file holding the encoding of the map.
C3_Witness ==
  /\ nMut > 0
  /\ op.name = "writeDone"
  /\ Persisted

\* C4: the file is left as it was at construction until a rename, and from
\* then on holds the complete encoding (one that parses back to it) of the
\* map as it was when the timer of that flush fired; a crash or a failure
\* between the write of the temporary file and the rename changes nothing.
C4_AtomicSnapshot ==
  /\ [](flushed # NoSnap =>
          /\ file = File(JSONstringify(flushed))
          /\ JSONvalid(file.toks)
          /\ JSONparse(file.toks) = flushed)
  /\ [][flushed' = NoSnap => file' = file]_vars
  /\ [][TimerFires /\ inflight' # inflight =>
          /\ Last(inflight').snap = __data__
          /\ Last(inflight').doc = JSONstringify(__data__)]_vars

\* C4 witness: the process crashed after an earlier flush, with the temporary
\* file of a new document complete and not yet renamed.
C4_Witness ==
  /\ ~alive
  /\ flushed # NoSnap
  /\ Len(inflight) = 1
  /\ inflight[1].stage = "tmp"
  /\ inflight[1].tmp = inflight[1].doc
  /\ inflight[1].doc # file.toks
  /\ file = File(JSONstringify(flushed))

\* C5 as stated: the write that persists the last mutation begins no later
\* than 2 * DB_WRITE_DELAY_MS after it, however long a flush in flight lasts.
C5_WithinTwoDelays == dirty => sinceMut <= 2 * DB_WRITE_DELAY_MS

\* C5 amended: while the last mutation awaits its write a timer is armed, and
\* after r expiries that found a flush in flight it expires (r + 1) *
\* DB_WRITE_DELAY_MS after the mutation: the write begins at the first expiry
\* that finds no flush in flight, within 2 * DB_WRITE_DELAY_MS only if r <= 1.
C5_WriteAtFirstFreeExpiry ==
  dirty =>
    \E t \in timers :
      /\ t.id = __writeHold__
      /\ (requeues < MaxRequeues /\ (requeues + 1) * DB_WRITE_DELAY_MS < TimeCap
            => sinceMut + t.due = (requeues + 1) * DB_WRITE_DELAY_MS)

\* C5 witness: after one busy expiry the timer is due again, two delays after
\* the mutation, and the flush in flight is over.
C5_Witness ==
  /\ dirty
  /\ requeues = 1
  /\ sinceMut = 2 * DB_WRITE_DELAY_MS
  /\ ~__writeLock__
  /\ \E t \in timers : t.due = 0

WriteFails == \E i \in 1..Len(inflight) : WriteFail(i)

\* The bucket's fields as the callback of a write that went well leaves them.
AfterGoodWrite == <<__data__, __writeHold__, writeCallback(FALSE), timers>>

\* C6: a failed write is surfaced as an error outcome the flush completion
\* records: the callback of a failed write leaves the bucket in another state
\* than the callback of a write that went well.
C6_FailureSurfaced == [][WriteFails => bucket' # AfterGoodWrite]_vars

\* C7: a failed write leaves the map and the bucket file as they were,
\* releases the lock and arms no timer; a set or remove arms the timer for the
\* full delay, and the timer that then finds the lock free starts a write of
\* the map as it is at that moment.
C7_FailedWriteNotRetried ==
  [][/\ WriteFails =>
          /\ __data__' = __data__
          /\ file' = file
          /\ __writeLock__' = FALSE
          /\ timers' = timers
          /\ __writeHold__' = __writeHold__
     /\ SetOrRemove =>
          \E t \in timers' :
            t.id = __writeHold__' /\ t.due = DB_WRITE_DELAY_MS
     /\ (TimerFires /\ ~__writeLock__) =>
          /\ Len(inflight') = Len(inflight) + 1
          /\ Last(inflight').doc = JSONstringify(__data__)
          /\ Last(inflight').tmp = <<>>]_vars

\* C7 witness: a write has failed; the lock is free, no timer is armed and the
\* file does not hold the map.
C7_Witness ==
  /\ op.name = "writeFail"
  /\ nMut > 0
  /\ ~__writeLock__
  /\ timers = {}
  /\ inflight = <<>>
  /\ file # File(JSONstringify(__data__))

\* C8: getItem(k, d) is d when k is absent from the map, and after
\* _setItem(k, v), with no mutation since, getItem(k, d) is the string form of
\* v, the empty string included.
C8_GetDefaultAndSet ==
  IsObj(__data__) =>
    \A k \in Keys, d \in Defaults :
      /\ ~HasOwn(__data__, k) => getItem(k, d) = d
      /\ (op.name = "setItem" /\ op.k = k) => getItem(k, d) = ToStringJS(op.v)

Range(seq) == {seq[i] : i \in 1..Len(seq)}

\* C9: after _setItem(k, v) followed by _removeItem(k), both run to their end,
\* getItem(k, undefined) is undefined, k is not in allKeys(), and the entries
\* of the other keys are as they were.
C9_RemoveSemantics ==
  [][\A k \in Keys :
       (IsObj(__data__) /\ op.name = "setItem" /\ op.k = k /\ RemoveItem(k)) =>
         /\ getItemOf(__data__', k, Undefined) = Undefined
         /\ k \notin Range(allKeysOf(__data__'))
         /\ \A j \in Keys \ {k} :
              /\ HasOwn(__data__', j) = HasOwn(__data__, j)
              /\ Get(__data__', j) = Get(__data__, j)]_vars

\* C10: every value the in-memory map holds is a string, whatever the bucket
\* file held at construction and whatever was set since.
C10_ValuesAreStrings ==
  IsObj(__data__) =>
    \A i \in 1..Len(__data__.props) : __data__.props[i].v.t = "str"

\* The events of the last handler that went to the bucket-wide channel.
Changed(o) == SelectSeq(o.events, LAMBDA e : e.ch = "changed")

\* C11: each call _setItem(k, v) and each call _removeItem(k) delivers exactly
\* one 'changed' event, {type: 'setItem', key: k} or {type: 'removeItem', key:
\* k}; its listeners find the map with the mutation made, and the write that
\* persists the mutation has not started: the call starts no write and changes
\* no file, and the mutation awaits its write with the timer armed.
C11_ChangedEventOnce ==
  [][\A k \in Keys :
       /\ \A v \in Values :
            (op'.name = "setItem" /\ SetItem(k, v)) =>
              /\ Len(Changed(op')) = 1
              /\ Changed(op')[1].type = "setItem"
              /\ Changed(op')[1].key = k
              /\ Changed(op')[1].map = __data__'
              /\ Get(Changed(op')[1].map, k) = ToStringJS(v)
              /\ inflight' = inflight /\ file' = file
              /\ dirty' /\ \E t \in timers' : t.id = __writeHold__'
       /\ (op'.name = "removeItem" /\ RemoveItem(k)) =>
              /\ Len(Changed(op')) = 1
              /\ Changed(op')[1].type = "removeItem"
              /\ Changed(op')[1].key = k
              /\ Changed(op')[1].map = __data__'
              /\ ~HasOwn(Changed(op')[1].map, k)
              /\ inflight' = inflight /\ file' = file
              /\ dirty' /\ \E t \in timers' : t.id = __writeHold__']_vars

\* Some request of the gateway with correlation id id and sync flag sync is
\* handled.
Handled(id, sync) ==
  \E k \in Keys, v \in Values, runs \in RunsGiven :
    LET body == Body(id, sync, k, v, runs)
    IN \/ _handleIPCSetItem(body)
       \/ _handleIPCRemoveItem(body)
       \/ _handleIPCGetItem(body)
       \/ _handleIPCAllKeys(body)
       \/ _handleIPCAllItems(body)
       \/ _handleIPCGetStats(body)
       \/ _handleIPCMeasurePerformance(body)

\* C12: every gateway request with correlation id i produces exactly one
\* reply {id: i, response}: as the returnValue of the event, with nothing sent
\* on the reply channel, when sync is true; sent on the reply channel, with no
\* returnValue set, when sync is false.
C12_ExactlyOneReply ==
  [][\A id \in IpcIds, sync \in BOOLEAN :
       (nReq' # nReq /\ Handled(id, sync)) =>
         IF sync
         THEN /\ Len(op'.evt.returnValue) = 1
              /\ op'.evt.returnValue[1].id = id
              /\ op'.evt.sent = <<>>
         ELSE /\ Len(op'.evt.sent) = 1
              /\ op'.evt.sent[1].msg.id = id
              /\ op'.evt.returnValue = <<>>]_vars

\* The file f holds the encoding of a map from strings to strings.
IsStringMapDoc(f) ==
  /\ f.exists
  /\ JSONvalid(f.toks)
  /\ f.toks[1] = LBRACE
  /\ \A i \in 1..Len(f.toks) : f.toks[i].t \notin {"num", "null"}

\* C13: whenever the backing file is not the encoding of a map from strings to
\* strings (absent, or any other content), the bucket as construction leaves
\* it is an empty store: its map is {} and allKeys() is [].
C13_CorruptLoadGivesEmptyStore ==
  (op.name = "constructor" /\ ~IsStringMapDoc(file)) =>
    /\ __data__ = Obj(<<>>)
    /\ allKeys = <<>>

\* C14: for every reachable map of strings, the keyLengths of getStats() has
\* exactly the keys of the map, and gives for each key the length of the
\* string stored for it.
C14_KeyLengths ==
  (IsObj(__data__) /\ C10_ValuesAreStrings) =>
    LET keyLengths == getStatsOf(__data__, file).keyLengths
    IN /\ ObjectKeys(keyLengths) = ObjectKeys(__data__)
       /\ \A k \in Range(ObjectKeys(__data__)) :
            Get(keyLengths, k) = Num(ToString(Len(Get(__data__, k).s)))

\* Some call of measurePerformance with argument runs, direct or through the
\* gateway.
Measures(runs) ==
  \/ MeasurePerformance(runs)
  \/ \E id \in IpcIds, sync \in BOOLEAN :
       _handleIPCMeasurePerformance(Body(id, sync, "", Undefined, runs))

\* What the call returned: to its caller, or in its reply.
Returned(o) ==
  IF o.name = "measurePerformance" THEN o.ret
  ELSE IF o.evt.returnValue # <<>> THEN o.evt.returnValue[1].response
       ELSE o.evt.sent[1].msg.response

\* C15: measurePerformance(runs), called directly or through the gateway, in
\* any state of the bucket, changes no file but the '.measure' one, leaves the
\* map, the timer handle, the pending timer, the lock and the writes in flight
\* as they are, and returns exactly runs samples (20 when runs is left out) in
\* each of serialize, flush and both.
C15_MeasureTouchesScratchOnly ==
  [][op'.name \in {"measurePerformance", "ipc:measurePerformance"} =>
       \A runs \in RunsGiven :
         Measures(runs) =>
           /\ file' = file
           /\ __data__' = __data__
           /\ __writeHold__' = __writeHold__
           /\ timers' = timers
           /\ __writeLock__' = __writeLock__
           /\ inflight' = inflight
           /\ Len(Returned(op').serialize) = RunsOf(runs)
           /\ Len(Returned(op').flush) = RunsOf(runs)
           /\ Len(Returned(op').both) = RunsOf(runs)]_vars

\* C15 witness: measurePerformance has run while a flush was in flight; the
\* '.measure' file holds the map, the bucket file does not.
C15_Witness ==
  /\ op.name \in {"measurePerformance", "ipc:measurePerformance"}
  /\ Len(Returned(op).both) = 2
  /\ __writeLock__
  /\ Len(inflight) = 1
  /\ scratch = File(JSONstringify(__data__))
  /\ file # scratch

\* The bucket is as construction left it.
JustConstructed == op.name = "constructor"

CallsWriteToDisk == SetOrRemove \/ (TimerFires /\ __writeLock__)

\* C17: at most one flush timer is armed in every reachable state, and every
\* call of _writeToDisk, from a mutation or from the requeue of a busy
\* callback, leaves the timer it arms as the only one: the timer armed before
\* it is cancelled.
C17_OneTimerArmed ==
  /\ [](Cardinality(timers) <= 1)
  /\ [][CallsWriteToDisk =>
          timers' = {[id |-> __writeHold__', due |-> DB_WRITE_DELAY_MS]}]_vars

\* C17 witness: a mutation has re-armed the timer that an earlier mutation
\* had armed and that had not expired.
C17_Witness ==
  /\ op.name \in {"setItem", "removeItem"}
  /\ nMut >= 2
  /\ burst.tracked /\ burst.n >= 2
  /\ Cardinality(timers) = 1
  /\ \E t \in timers : t.id = __writeHold__ /\ t.due = DB_WRITE_DELAY_MS

\* C18: a timer that fires while a flush is in flight starts no write, leaves
\* the lock and the map as they are and arms the timer again for a full
\* delay; and, every write in flight coming to its end, a requeued flush is
\* followed by the start of a physical write: the callback does not requeue
\* for ever.
C18_RequeueThenWrite ==
  /\ [][(TimerFires /\ __writeLock__) =>
          /\ inflight' = inflight
          /\ __writeLock__' = __writeLock__
          /\ __data__' = __data__
          /\ file' = file
          /\ timers' = {[id |-> __writeHold__', due |-> DB_WRITE_DELAY_MS]}]_vars
  /\ (op.name = "requeue" ~> op.name = "flushStart")

\* C18 witness: the flush a busy callback had put off has started its write,
\* the flush that was in flight being over.
C18_Witness ==
  /\ op.name = "flushStart"
  /\ requeues >= 1
  /\ __writeLock__
  /\ Len(inflight) = 1
  /\ inflight[1].snap = __data__
  /\ flushed # NoSnap

\* C19: _setItem(k, v) returns the value that was stored for k: the string
\* form of v.
C19_SetReturnsStored ==
  (IsObj(__data__) /\ op.name = "setItem") =>
    /\ op.ret = Get(__data__, op.k)
    /\ op.ret = ToStringJS(op.v)

\* C20: dirty implies pending.  While a set or remove applied to the map has
\* been captured by no write started after it, the timer _writeToDisk armed
\* last is pending; and the mutation stops awaiting its write only when a
\* timer callback starts a write of the map as it then is (or the process
\* dies).
C20_DirtyImpliesPending ==
  /\ [](dirty => \E t \in timers : t.id = __writeHold__)
  /\ [][(dirty /\ ~dirty' /\ alive') =>
          /\ TimerFires
          /\ Len(inflight') = Len(inflight) + 1
          /\ Last(inflight').snap = __data__'
          /\ __writeLock__']_vars

\* C20 witness: a mutation made during a flush awaits its write, its timer
\* armed again by a callback that found the lock held.
C20_Witness ==
  /\ dirty
  /\ op.name = "requeue"
  /\ __writeLock__
  /\ \E t \in timers : t.id = __writeHold__ /\ t.due = DB_WRITE_DELAY_MS
  /\ inflight[1].snap # __data__

====
